---------------------------- MODULE Spec2Model ----------------------------
(***************************************************************************)
(* World Monitor: the App orchestrator (refresh cycles, playback,          *)
(* snapshot saving) and the MapComponent hotspot scorer.                   *)
(*                                                                         *)
(* Strings of the program (titles, keywords) are sequences of one-letter   *)
(* strings, so that toLowerCase and includes are computed, not assumed.    *)
(* Time is counted in minutes.                                             *)
(***************************************************************************)
EXTENDS Integers, Sequences, FiniteSets, TLC

\* ------------------------------------------------------------------ bounds

\* Longest news list handed to one scoring pass in ScoreSpec.
MaxNews == 4

\* ------------------------------------------------------------- map: data

\* Date.now() divides by 1000 * 60 * 60 ms; the model's clock ticks in minutes.
UnitsPerHour == 60

\* item.pubDate absent (undefined).
NoDate == -100000

\* spot.level absent (the Hotspot type leaves level optional).
NoLevel == "unset"

\* String.prototype.toLowerCase on one letter.
LowerChar(c) ==
    CASE c = "A" -> "a"
      [] c = "B" -> "b"
      [] c = "C" -> "c"
      [] OTHER -> c

\* String.prototype.toLowerCase.
toLowerCase(s) == [i \in 1..Len(s) |-> LowerChar(s[i])]

\* String.prototype.includes: sub occurs in s as a contiguous substring.
includes(s, sub) ==
    \E i \in 0..(Len(s) - Len(sub)) : SubSeq(s, i + 1, i + Len(sub)) = sub

\* The hotspots the map is constructed with ([...INTEL_HOTSPOTS]): two of them,
\* one whose level is not set, one with two keywords in mixed case.
INTEL_HOTSPOTS ==
    << [name |-> "Gulf", keywords |-> << <<"A", "b">>, <<"b">> >>,
        level |-> NoLevel, status |-> "Monitoring", hasBreaking |-> FALSE],
       [name |-> "Strait", keywords |-> << <<"c">> >>,
        level |-> "elevated", status |-> "Tensions", hasBreaking |-> FALSE] >>

HotspotNames == {INTEL_HOTSPOTS[i].name : i \in 1..Len(INTEL_HOTSPOTS)}

Levels == {"low", "elevated", "high"}

\* A NewsItem: title, isAlert, pubDate (or NoDate), link (its identity).
NewsItem(title, isAlert, pubDate, link) ==
    [title |-> title, isAlert |-> isAlert, pubDate |-> pubDate, link |-> link]

\* ------------------------------------------------- map: updateHotspotActivity

\* spot.keywords.filter(kw => titleLower.includes(kw.toLowerCase()))
matches(spot, item) ==
    SelectSeq(spot.keywords,
              LAMBDA kw : includes(toLowerCase(item.title), toLowerCase(kw)))

\* The recency bonus of one matching item at time t.
RecencyBonusInclusive(item, t) ==
    IF item.pubDate = NoDate THEN 0
    ELSE IF (t - item.pubDate) <= 1 * UnitsPerHour THEN 3
    ELSE IF (t - item.pubDate) <= 6 * UnitsPerHour THEN 2
    ELSE IF (t - item.pubDate) <= 24 * UnitsPerHour THEN 1
    ELSE 0

RecencyBonus(item, t) ==
    IF item.pubDate = NoDate THEN 0
    ELSE IF (t - item.pubDate) < 1 * UnitsPerHour THEN 3
    ELSE IF (t - item.pubDate) < 6 * UnitsPerHour THEN 2
    ELSE IF (t - item.pubDate) < 24 * UnitsPerHour THEN 1
    ELSE 0

\* The locals of one hotspot's scan before the first item.
NoTotals == [score |-> 0, hasBreaking |-> FALSE, matchedCount |-> 0]

\* The forEach body with the alert flag read before the keyword test.
ScanItemAnyAlert(acc, spot, item, t) ==
    IF Len(matches(spot, item)) > 0
    THEN [score |-> acc.score + Len(matches(spot, item)) * 2
                    + (IF item.isAlert THEN 5 ELSE 0)
                    + RecencyBonus(item, t),
          hasBreaking |-> acc.hasBreaking \/ item.isAlert,
          matchedCount |-> acc.matchedCount + 1]
    ELSE [acc EXCEPT !.hasBreaking = @ \/ item.isAlert]

\* The body of news.forEach for one item: the locals after it.
ScanItem(acc, spot, item, t) ==
    IF Len(matches(spot, item)) > 0
    THEN [score |-> acc.score + Len(matches(spot, item)) * 2
                    + (IF item.isAlert THEN 5 ELSE 0)
                    + RecencyBonus(item, t),
          hasBreaking |-> acc.hasBreaking \/ item.isAlert,
          matchedCount |-> acc.matchedCount + 1]
    ELSE acc

\* news.forEach(...) for one hotspot: the locals after the first n items.
RECURSIVE ScanNews(_, _, _, _)
ScanNews(spot, news, n, t) ==
    IF n = 0 THEN NoTotals
    ELSE ScanItem(ScanNews(spot, news, n - 1, t), spot, news[n], t)

\* The level calculation with the idle branch clearing the level, for readers
\* to default it.
ClassifyClearIdle(spot, tot) ==
    IF tot.hasBreaking \/ tot.matchedCount >= 4 \/ tot.score >= 10
    THEN [spot EXCEPT !.hasBreaking = tot.hasBreaking, !.level = "high",
                      !.status = IF tot.hasBreaking THEN "BREAKING NEWS"
                                 ELSE "High activity"]
    ELSE IF tot.matchedCount >= 2 \/ tot.score >= 4
    THEN [spot EXCEPT !.hasBreaking = tot.hasBreaking, !.level = "elevated",
                      !.status = "Elevated activity"]
    ELSE IF tot.matchedCount >= 1
    THEN [spot EXCEPT !.hasBreaking = tot.hasBreaking, !.level = "low",
                      !.status = "Recent mentions"]
    ELSE [spot EXCEPT !.hasBreaking = tot.hasBreaking, !.level = NoLevel,
                      !.status = "Monitoring"]

\* The level calculation with hasBreaking carried over from the pass before.
ClassifyCarryBreaking(spot, tot) ==
    LET carried == tot.hasBreaking \/ spot.hasBreaking IN
    IF carried \/ tot.matchedCount >= 4 \/ tot.score >= 10
    THEN [spot EXCEPT !.hasBreaking = carried, !.level = "high",
                      !.status = IF carried THEN "BREAKING NEWS"
                                 ELSE "High activity"]
    ELSE IF tot.matchedCount >= 2 \/ tot.score >= 4
    THEN [spot EXCEPT !.hasBreaking = carried, !.level = "elevated",
                      !.status = "Elevated activity"]
    ELSE IF tot.matchedCount >= 1
    THEN [spot EXCEPT !.hasBreaking = carried, !.level = "low",
                      !.status = "Recent mentions"]
    ELSE [spot EXCEPT !.hasBreaking = carried, !.level = "low",
                      !.status = "Monitoring"]

\* The level calculation at the end of one hotspot's scan.
ClassifyStrict(spot, tot) ==
    IF tot.hasBreaking \/ tot.matchedCount >= 4 \/ tot.score > 10
    THEN [spot EXCEPT !.hasBreaking = tot.hasBreaking, !.level = "high",
                      !.status = IF tot.hasBreaking THEN "BREAKING NEWS"
                                 ELSE "High activity"]
    ELSE IF tot.matchedCount >= 2 \/ tot.score > 4
    THEN [spot EXCEPT !.hasBreaking = tot.hasBreaking, !.level = "elevated",
                      !.status = "Elevated activity"]
    ELSE [spot EXCEPT !.hasBreaking = tot.hasBreaking, !.level = "low",
                      !.status = "Recent mentions"]

Classify(spot, tot) ==
    IF tot.hasBreaking \/ tot.matchedCount >= 4 \/ tot.score >= 10
    THEN [spot EXCEPT !.hasBreaking = tot.hasBreaking, !.level = "high",
                      !.status = IF tot.hasBreaking THEN "BREAKING NEWS"
                                 ELSE "High activity"]
    ELSE IF tot.matchedCount >= 2 \/ tot.score >= 4
    THEN [spot EXCEPT !.hasBreaking = tot.hasBreaking, !.level = "elevated",
                      !.status = "Elevated activity"]
    ELSE IF tot.matchedCount >= 1
    THEN [spot EXCEPT !.hasBreaking = tot.hasBreaking, !.level = "low",
                      !.status = "Recent mentions"]
    ELSE [spot EXCEPT !.hasBreaking = tot.hasBreaking, !.level = "low",
                      !.status = "Monitoring"]

\* A pass that rescores the first hotspot and leaves the rest for later.
updateHotspotActivityFirstOnly(hs, news, t) ==
    [i \in 1..Len(hs) |->
        IF i = 1 THEN Classify(hs[i], ScanNews(hs[i], news, Len(news), t)) ELSE hs[i]]

\* this.hotspots.forEach(...): every hotspot rescored from news at time t.
updateHotspotActivity(hs, news, t) ==
    [i \in 1..Len(hs) |-> Classify(hs[i], ScanNews(hs[i], news, Len(news), t))]

\* The locals (score, hasBreaking, matchedCount) each hotspot's scan ended with.
PassTotals(hs, news, t) ==
    [i \in 1..Len(hs) |-> ScanNews(hs[i], news, Len(news), t)]

\* getHotspotLevels without the default for a level that is not set.
getHotspotLevelsRaw(hs) ==
    [n \in {hs[i].name : i \in 1..Len(hs)} |->
        (CHOOSE x \in {hs[i] : i \in 1..Len(hs)} : x.name = n).level]

\* getHotspotLevels(): name -> spot.level || 'low'.
getHotspotLevels(hs) ==
    [n \in {hs[i].name : i \in 1..Len(hs)} |->
        LET spot == CHOOSE x \in {hs[i] : i \in 1..Len(hs)} : x.name = n
        IN  IF spot.level = NoLevel \/ spot.level = "" THEN "low" ELSE spot.level]

\* setHotspotLevels writing whatever value levels holds for a name.
setHotspotLevelsUnchecked(hs, levels) ==
    [i \in 1..Len(hs) |->
        IF hs[i].name \in DOMAIN levels
        THEN [hs[i] EXCEPT !.level = levels[hs[i].name]]
        ELSE hs[i]]

\* setHotspotLevels(levels): a hotspot named in levels with a non-empty value
\* takes that value as its level; nothing else is written.
setHotspotLevels(hs, levels) ==
    [i \in 1..Len(hs) |->
        IF hs[i].name \in DOMAIN levels /\ levels[hs[i].name] # ""
        THEN [hs[i] EXCEPT !.level = levels[hs[i].name]]
        ELSE hs[i]]

\* ------------------------------------------------------- map: zoom and view

\* state.zoom is counted in tenths: zoom 1 is 10, a step of 0.5 is 5.
ZoomScale == 10

MapViews == {"global", "us", "mena"}

TimeRanges == {"1h", "6h", "24h", "48h", "7d", "all"}

\* The state createPanels constructs the map with (its layers apart).
initialState ==
    [zoom |-> 1 * ZoomScale, pan |-> [x |-> 0, y |-> 0], view |-> "global",
     timeRange |-> "7d"]

Min(a, b) == IF a <= b THEN a ELSE b

Max(a, b) == IF a >= b THEN a ELSE b

\* zoomIn without the cap.
zoomInUncapped(st) == [st EXCEPT !.zoom = st.zoom + ZoomScale \div 2]

\* zoomIn(): Math.min(zoom + 0.5, 4)
zoomIn(st) == [st EXCEPT !.zoom = Min(st.zoom + ZoomScale \div 2, 4 * ZoomScale)]

\* zoomOut(): Math.max(zoom - 0.5, 1)
zoomOut(st) == [st EXCEPT !.zoom = Max(st.zoom - ZoomScale \div 2, 1 * ZoomScale)]

\* reset(): zoom 1, pan (0, 0)
reset(st) == [st EXCEPT !.zoom = 1 * ZoomScale, !.pan = [x |-> 0, y |-> 0]]

\* setView(view): the view, and the zoom and pan that go with it.
setView(st, view) ==
    [st EXCEPT !.view = view,
               !.zoom = IF view = "mena" THEN (5 * ZoomScale) \div 2 ELSE 1 * ZoomScale,
               !.pan = IF view = "mena" THEN [x |-> -180, y |-> 60]
                       ELSE [x |-> 0, y |-> 0]]

\* setTimeRange(range)
setTimeRange(st, range) == [st EXCEPT !.timeRange = range]

\* ------------------------------------------------------------- app: data

\* The categories loadNews walks, in its order; intel is loaded after them.
FeedCategories ==
    <<"politics", "tech", "finance", "gov", "middleeast", "layoffs", "congress",
      "ai", "thinktanks">>

\* The model walks the first NumFeeds of them.
NumFeeds == 1

categories == SubSeq(FeedCategories, 1, NumFeeds)

IntelStep == NumFeeds + 1

CategoryAt(step) == IF step <= NumFeeds THEN categories[step] ELSE "intel"

NewsCategories == {CategoryAt(k) : k \in 1..IntelStep}

\* Timer ticks and playback callbacks delivered in one run.
MaxEvents == 2

\* loadNews invocations in flight at once.
MaxNewsLoads == 2

\* Invocations of each other load operation in flight at once.
MaxOtherLoads == 1

\* The time init() runs at.
ClockStart == 50 * UnitsPerHour

\* setInterval(saveCurrentSnapshot, 15 * 60 * 1000)
SnapshotPeriod == 15

\* m.price === null
NoPrice == -1

TitleOne == <<"x", "B">>          \* holds "b" only: one keyword of Gulf
TitleTwo == <<"a", "B">>          \* holds "ab" and "b": two keywords of Gulf
TitleBoth == <<"b", " ", "C">>    \* one keyword of Gulf, one of Strait
TitleNone == <<"x", "y">>         \* no keyword

\* What a fetch of one category's feeds returns when it succeeds.
FeedItems(cat) ==
    CASE cat = "politics" ->
            <<NewsItem(TitleBoth, TRUE, ClockStart - 30, "politics")>>
      [] cat = "tech" ->
            <<NewsItem(TitleTwo, FALSE, ClockStart - 90, "tech")>>
      [] cat = "intel" ->
            <<NewsItem(<<"A", "b">>, FALSE, NoDate, "intel")>>
      [] OTHER ->
            <<NewsItem(TitleNone, FALSE, NoDate, cat)>>

\* A fetch settles with a value or with an error.
Fulfilled(v) == [ok |-> TRUE, value |-> v]
Rejected == [ok |-> FALSE, error |-> "Error: fetch failed"]

\* fetchCategoryFeeds(feeds): the category's items, or a failure.
FeedOutcomes(cat) == {Fulfilled(FeedItems(cat)), Rejected}

PredA ==
    [id |-> "pm-a", title |-> <<"a", "b">>, yesPrice |-> 60, noPrice |-> 40,
     volume24h |-> 7, liquidity |-> 3]
PredB ==
    [id |-> "pm-b", title |-> <<"z">>, yesPrice |-> 25, noPrice |-> 75,
     volume24h |-> 2, liquidity |-> 1]

\* fetchPredictions(): two markets, or a failure.
PredictionOutcomes == {Fulfilled(<<PredA, PredB>>), Rejected}

\* fetchMultipleStocks(MARKET_SYMBOLS): one symbol may come without a price.
StockOutcomes ==
    {Fulfilled(<<[symbol |-> "SPX", price |-> 10, change |-> 1],
                 [symbol |-> "VIX", price |-> NoPrice, change |-> 0]>>),
     Rejected}

\* The sector, commodity and crypto fetches: only their settling matters here.
OtherOutcomes == {Fulfilled(<<>>), Rejected}

\* fetchEarthquakes()
QuakeOutcomes == {Fulfilled(<<"M5">>), Rejected}

\* clusterNews(items): every item joins the first event whose title it shares
\* (case ignored), else it starts an event of its own.
AddToEvents(evs, item) ==
    LET key == toLowerCase(item.title)
        hit == {k \in 1..Len(evs) : evs[k].key = key}
    IN  IF hit = {} THEN Append(evs, [key |-> key, members |-> <<item>>])
        ELSE LET k == CHOOSE x \in hit : \A y \in hit : x <= y
             IN  [evs EXCEPT ![k].members = Append(@, item)]

RECURSIVE ClusterFirst(_, _)
ClusterFirst(items, n) ==
    IF n = 0 THEN <<>> ELSE AddToEvents(ClusterFirst(items, n - 1), items[n])

clusterNews(items) == ClusterFirst(items, Len(items))

\* analyzeCorrelations(events, predictions, markets): one signal for every event
\* whose title a prediction market shares; none without events or predictions.
analyzeCorrelations(evs, preds, markets) ==
    LET hit(e) == \E j \in 1..Len(preds) : toLowerCase(preds[j].title) = e.key
        flagged == SelectSeq(evs, hit)
    IN  [k \in 1..Len(flagged) |->
            [kind |-> "prediction", event |-> flagged[k].key,
             size |-> Len(flagged[k].members)]]

\* updateBaseline(key, observed): the stored baseline with the value folded in.
updateBaseline(b, observed) ==
    [sampleCount |-> b.sampleCount + 1, total |-> b.total + observed]

\* marketPrices without the test for a missing price.
marketPricesOfAll(markets) ==
    [sym \in {markets[i].symbol : i \in 1..Len(markets)} |->
        (CHOOSE m \in {markets[i] : i \in 1..Len(markets)} : m.symbol = sym).price]

\* saveCurrentSnapshot's marketPrices: symbol -> price, for the priced symbols.
marketPricesOf(markets) ==
    [sym \in {markets[i].symbol :
                i \in {j \in 1..Len(markets) : markets[j].price # NoPrice}} |->
        (CHOOSE m \in {markets[i] : i \in 1..Len(markets)} :
            m.symbol = sym /\ m.price # NoPrice).price]

\* The snapshot saveCurrentSnapshot builds from the app's state.
SnapshotOf(t, clusters, markets, preds, hs) ==
    [timestamp |-> t,
     events |-> clusters,
     marketPrices |-> marketPricesOf(markets),
     predictions |->
        [i \in 1..Len(preds) |->
            [title |-> preds[i].title, yesPrice |-> preds[i].yesPrice]],
     hotspotLevels |-> getHotspotLevels(hs)]

\* saveCurrentSnapshot without its playback check.
saveCurrentSnapshotUngated(store, t, playback, clusters, markets, preds, hs) ==
    Append(store, SnapshotOf(t, clusters, markets, preds, hs))

\* saveCurrentSnapshot() at time t in the given app state: nothing in playback
\* mode, else one snapshot of that state goes to the end of the store.
saveCurrentSnapshot(store, t, playback, clusters, markets, preds, hs) ==
    IF playback THEN store
    ELSE Append(store, SnapshotOf(t, clusters, markets, preds, hs))

\* The predictions restoreSnapshot rebuilds from a snapshot's (title, yesPrice).
RestoredPredictions(snap) ==
    [i \in 1..Len(snap.predictions) |->
        [id |-> "snap-" \o ToString(i - 1), title |-> snap.predictions[i].title,
         yesPrice |-> snap.predictions[i].yesPrice,
         noPrice |-> 1 - snap.predictions[i].yesPrice,
         volume24h |-> 0, liquidity |-> 0]]

\* A snapshot an earlier session left in the store.
StoredSnapshot ==
    [timestamp |-> ClockStart - 60,
     events |-> clusterNews(<<NewsItem(TitleOne, TRUE, ClockStart - 120, "tech")>>),
     marketPrices |-> ("SPX" :> 9),
     predictions |-> <<[title |-> <<"z">>, yesPrice |-> 50]>>,
     hotspotLevels |-> ("Gulf" :> "high" @@ "Strait" :> "low")]

\* ---------------------------------------------------------- app: panel order

\* createPanels' defaultOrder.
defaultOrder ==
    <<"politics", "middleeast", "tech", "ai", "finance", "layoffs", "congress",
      "heatmap", "markets", "commodities", "crypto", "polymarket", "gov",
      "thinktanks", "intel", "monitors">>

\* Array.prototype.includes
arrayIncludes(arr, x) == \E k \in 1..Len(arr) : arr[k] = x

\* Array.prototype.indexOf: the 0-based index of the first x, or -1.
indexOf(arr, x) ==
    IF arrayIncludes(arr, x)
    THEN (CHOOSE k \in 1..Len(arr) :
             arr[k] = x /\ \A j \in 1..(k - 1) : arr[j] # x) - 1
    ELSE -1

\* arr.splice(idx, 1): arr without the element at 0-based idx.
spliceOut(arr, idx) == SubSeq(arr, 1, idx) \o SubSeq(arr, idx + 2, Len(arr))

\* arr.splice(idx, 0, ...items): items put in at 0-based idx.
spliceIn(arr, idx, items) ==
    SubSeq(arr, 1, idx) \o items \o SubSeq(arr, idx + 1, Len(arr))

\* The merge with the new panels put in at politics' own index.
mergePanelOrderBefore(saved) ==
    IF Len(saved) > 0
    THEN LET missing == SelectSeq(defaultOrder, LAMBDA k : ~arrayIncludes(saved, k))
             valid == SelectSeq(saved, LAMBDA k : arrayIncludes(defaultOrder, k))
             monitorsIdx == indexOf(valid, "monitors")
             kept == IF monitorsIdx # -1 THEN spliceOut(valid, monitorsIdx) ELSE valid
             insertIdx == IF indexOf(kept, "politics") # -1
                          THEN indexOf(kept, "politics") ELSE 0
             newPanels == SelectSeq(missing, LAMBDA k : k # "monitors")
         IN  Append(spliceIn(kept, insertIdx, newPanels), "monitors")
    ELSE defaultOrder

\* createPanels: the saved order merged with the default one.
mergePanelOrder(saved) ==
    IF Len(saved) > 0
    THEN LET missing == SelectSeq(defaultOrder, LAMBDA k : ~arrayIncludes(saved, k))
             valid == SelectSeq(saved, LAMBDA k : arrayIncludes(defaultOrder, k))
             monitorsIdx == indexOf(valid, "monitors")
             kept == IF monitorsIdx # -1 THEN spliceOut(valid, monitorsIdx) ELSE valid
             insertIdx == IF indexOf(kept, "politics") + 1 # 0
                          THEN indexOf(kept, "politics") + 1 ELSE 0
             newPanels == SelectSeq(missing, LAMBDA k : k # "monitors")
         IN  Append(spliceIn(kept, insertIdx, newPanels), "monitors")
    ELSE defaultOrder

\* ------------------------------------------------------------------ state

VARIABLES
    clock,              \* Date.now(), in minutes
    hotspots,           \* MapComponent.hotspots
    mapNews,            \* MapComponent.news
    mapNewsShared,      \* MapComponent.news is the very array App.allNews holds
    mapQuakes,          \* MapComponent.earthquakes
    scanTotals,         \* the locals each hotspot's latest scan ended with
    allNews,            \* App.allNews
    latestClusters,     \* App.latestClusters
    latestPredictions,  \* App.latestPredictions
    latestMarkets,      \* App.latestMarkets
    isPlaybackMode,     \* App.isPlaybackMode
    initPc,             \* where App.init stands
    initPending,        \* the loads of init's loadAllData that have not resolved
    newsLoads,          \* the loadNews invocations in flight, oldest first
    marketLoads,        \* the loadMarkets invocations in flight
    predictionLoads,    \* the loadPredictions invocations in flight
    quakeLoads,         \* the loadEarthquakes invocations in flight
    newsPanels,         \* category -> what its NewsPanel shows
    predictionPanel,    \* what the polymarket panel shows
    monitorResults,     \* what the monitors panel was last rendered from
    feedStatus,         \* StatusPanel: source -> its last feed status
    baselines,          \* the baseline store: category -> baseline
    snapshots,          \* the snapshot store, oldest first
    signalHistory,      \* the signal history, oldest first
    lastCorrelation,    \* the latest analyzeCorrelations call and its arguments
    cycles,             \* loadAllData calls so far
    events,             \* timer ticks and playback callbacks so far
    savedOrder,         \* localStorage 'panel-order', as getSavedPanelOrder reads it
    panelOrder,         \* createPanels' panelOrder: the keys in the order appended
    state               \* MapComponent.state: zoom, pan, view, timeRange

mapVars == <<hotspots, mapNews, mapNewsShared, mapQuakes, scanTotals>>
dataVars == <<allNews, latestClusters, latestPredictions, latestMarkets>>
initVars == <<initPc, initPending>>
loadVars == <<newsLoads, marketLoads, predictionLoads, quakeLoads>>
panelVars == <<newsPanels, predictionPanel, monitorResults, feedStatus>>
storeVars == <<baselines, snapshots, signalHistory>>
layoutVars == <<savedOrder, panelOrder>>

vars ==
    <<clock, mapVars, dataVars, isPlaybackMode, initVars, loadVars, panelVars,
      storeVars, lastCorrelation, cycles, events, layoutVars, state>>

LoadKinds == {"news", "markets", "predictions", "quakes"}

\* category.charAt(0).toUpperCase() + category.slice(1)
FeedName(cat) ==
    CASE cat = "politics" -> "Politics"
      [] cat = "tech" -> "Tech"
      [] cat = "finance" -> "Finance"
      [] cat = "gov" -> "Gov"
      [] cat = "middleeast" -> "Middleeast"
      [] cat = "layoffs" -> "Layoffs"
      [] cat = "congress" -> "Congress"
      [] cat = "ai" -> "Ai"
      [] OTHER -> "Thinktanks"

StatusSources == {FeedName(categories[k]) : k \in 1..NumFeeds} \cup {"Polymarket"}

NoStatus == [status |-> "none"]

NoBaseline == [sampleCount |-> 0, total |-> 0]

\* A panel on which setDeviation was never called.
NoDeviation == [observed |-> 0, baseline |-> NoBaseline]

NoCorrelation ==
    [ran |-> FALSE, cyc |-> 0, clusters |-> <<>>, siblingPending |-> FALSE]

\* statusPanel.updateFeed with the error reports lost.
updateFeedOkOnly(status, name, value) ==
    IF value.status = "error" THEN status ELSE [status EXCEPT ![name] = value]

\* statusPanel.updateFeed(name, value): the source's status becomes value.
updateFeed(status, name, value) == [status EXCEPT ![name] = value]

\* The deviation computed against the baseline as it was before the update.
calculateDeviationStale(observed, stored, returned) ==
    [observed |-> observed, baseline |-> stored]

\* calculateDeviation(items.length, baseline), baseline being the one the awaited
\* updateBaseline returned (not the one stored before it): what setDeviation
\* is given.
calculateDeviation(observed, stored, returned) ==
    [observed |-> observed, baseline |-> returned]

\* The state once the constructor has returned and init() is about to run.
Init ==
    /\ clock = ClockStart
    /\ hotspots = INTEL_HOTSPOTS
    /\ mapNews = <<>>
    /\ mapNewsShared = FALSE
    /\ mapQuakes = <<>>
    /\ scanTotals = <<>>
    /\ allNews = <<>>
    /\ latestClusters = <<>>
    /\ latestPredictions = <<>>
    /\ latestMarkets = <<>>
    /\ isPlaybackMode = FALSE
    /\ initPc = "constructed"
    /\ initPending = {}
    /\ newsLoads = <<>>
    /\ marketLoads = <<>>
    /\ predictionLoads = <<>>
    /\ quakeLoads = <<>>
    /\ newsPanels = [c \in NewsCategories |-> [view |-> "empty", items |-> <<>>, deviation |-> NoDeviation]]
    /\ predictionPanel = <<>>
    /\ monitorResults = <<>>
    /\ feedStatus = [n \in StatusSources |-> NoStatus]
    /\ baselines = [c \in NewsCategories |-> NoBaseline]
    /\ snapshots = <<StoredSnapshot>>
    /\ signalHistory = <<>>
    /\ lastCorrelation = NoCorrelation
    /\ cycles = 0
    /\ events = 0
    /\ savedOrder = <<>>
    /\ panelOrder = <<>>
    /\ state = initialState

RemoveAt(q, i) == SubSeq(q, 1, i - 1) \o SubSeq(q, i + 1, Len(q))

\* ------------------------------------------------------------ app: init

\* What the settling of one load means to init, which awaits the Promise.all of
\* its own loadAllData (cycle 1): the first rejection rejects init; the last
\* resolution lets it go on to setupRefreshIntervals and setupSnapshotSaving,
\* whose first saveCurrentSnapshot() runs at once. cleanOldSnapshots() removes
\* only snapshots past the retention age, of which the store holds none.
\* The last four arguments are the app's state as the settling load leaves it.
Settle(kind, cyc, ok, clusters, markets, preds, hs) ==
    LET mine == cyc = 1 /\ initPc = "loading"
        last == mine /\ ok /\ initPending \ {kind} = {}
    IN  /\ initPending' = IF mine /\ ok THEN initPending \ {kind} ELSE initPending
        /\ initPc' = IF ~mine THEN initPc
                     ELSE IF ~ok THEN "rejected"
                     ELSE IF last THEN "running"
                     ELSE "loading"
        /\ snapshots' =
              IF last
              THEN saveCurrentSnapshot(snapshots, clock, isPlaybackMode, clusters,
                                       markets, preds, hs)
              ELSE snapshots

NoSettle == UNCHANGED <<initPc, initPending, snapshots>>

\* loadAllData(): the four loads start, each running up to its first await;
\* loadNews has emptied allNews by then.
loadAllData(cyc) ==
    /\ newsLoads' = Append(newsLoads,
            [cyc |-> cyc, step |-> 1, awaiting |-> "feed", items |-> <<>>])
    /\ allNews' = <<>>
    /\ mapNewsShared' = FALSE
    /\ marketLoads' = Append(marketLoads, [cyc |-> cyc, step |-> 1])
    /\ predictionLoads' = Append(predictionLoads, [cyc |-> cyc])
    /\ quakeLoads' = Append(quakeLoads, [cyc |-> cyc])

\* init(): initDB, the layout (createPanels) and the controls, then await
\* loadAllData().
init ==
    /\ initPc = "constructed"
    /\ initPc' = "loading"
    /\ initPending' = LoadKinds
    /\ cycles' = 1
    /\ panelOrder' = mergePanelOrder(savedOrder)
    /\ state' = initialState
    /\ UNCHANGED savedOrder
    /\ loadAllData(1)
    /\ UNCHANGED <<clock, hotspots, mapNews, mapQuakes, scanTotals, latestClusters,
                   latestPredictions, latestMarkets, isPlaybackMode, panelVars,
                   storeVars, lastCorrelation, events>>

\* --------------------------------------------------------- app: loadNews

\* A fetchCategoryFeeds awaited by loadNews invocation i settles with out.
NewsFeedArrives(i, out) ==
    LET inv == newsLoads[i]
        cat == CategoryAt(inv.step)
    IN
    /\ inv.awaiting = "feed"
    /\ out \in FeedOutcomes(cat)
    /\ IF out.ok
       THEN \* panel.renderNews(items); await updateBaseline(...)
            /\ newsPanels' = [newsPanels EXCEPT ![cat].view = "news",
                                                ![cat].items = out.value]
            /\ newsLoads' = [newsLoads EXCEPT ![i].awaiting = "baseline",
                                              ![i].items = out.value]
            /\ NoSettle
            /\ UNCHANGED feedStatus
       ELSE IF inv.step <= NumFeeds
       THEN \* loadNewsCategory's catch: status error, return []; next category
            /\ feedStatus' = updateFeed(feedStatus, FeedName(cat),
                                [status |-> "error", errorMessage |-> out.error])
            /\ newsLoads' = [newsLoads EXCEPT ![i].step = inv.step + 1]
            /\ NoSettle
            /\ UNCHANGED newsPanels
       ELSE \* the intel fetch is not in a try: loadNews rejects
            /\ newsLoads' = RemoveAt(newsLoads, i)
            /\ Settle("news", inv.cyc, FALSE, latestClusters, latestMarkets,
                      latestPredictions, hotspots)
            /\ UNCHANGED <<newsPanels, feedStatus>>
    /\ UNCHANGED <<layoutVars, state>>
    /\ UNCHANGED <<clock, mapVars, dataVars, isPlaybackMode, marketLoads,
                   predictionLoads, quakeLoads, predictionPanel, monitorResults,
                   baselines, signalHistory, lastCorrelation, cycles, events>>

\* The updateBaseline awaited by loadNews invocation i returns.
NewsBaselineDone(i) ==
    LET inv == newsLoads[i]
        cat == CategoryAt(inv.step)
        baseline == updateBaseline(baselines[cat], Len(inv.items))
        news == allNews \o inv.items
    IN
    /\ inv.awaiting = "baseline"
    /\ baselines' = [baselines EXCEPT ![cat] = baseline]
    /\ newsPanels' = [newsPanels EXCEPT ![cat].deviation =
                        calculateDeviation(Len(inv.items), baselines[cat], baseline)]
    /\ allNews' = news
    /\ IF inv.step <= NumFeeds
       THEN \* status ok; this.allNews.push(...items); the next category's fetch
            /\ feedStatus' = updateFeed(feedStatus, FeedName(cat),
                                [status |-> "ok", itemCount |-> Len(inv.items)])
            /\ newsLoads' = [newsLoads EXCEPT ![i].step = inv.step + 1,
                                              ![i].awaiting = "feed",
                                              ![i].items = <<>>]
            /\ mapNews' = IF mapNewsShared THEN news ELSE mapNews
            /\ NoSettle
            /\ UNCHANGED <<hotspots, scanTotals, mapNewsShared, monitorResults,
                           latestClusters>>
       ELSE \* push intel; updateHotspotActivity; updateMonitorResults; clusterNews
            /\ hotspots' = updateHotspotActivity(hotspots, news, clock)
            /\ scanTotals' = PassTotals(hotspots, news, clock)
            /\ mapNews' = news
            /\ mapNewsShared' = TRUE
            /\ monitorResults' = news
            /\ latestClusters' = clusterNews(news)
            /\ newsLoads' = RemoveAt(newsLoads, i)
            /\ Settle("news", inv.cyc, TRUE, clusterNews(news), latestMarkets,
                      latestPredictions,
                      updateHotspotActivity(hotspots, news, clock))
            /\ UNCHANGED feedStatus
    /\ UNCHANGED <<layoutVars, state>>
    /\ UNCHANGED <<clock, mapQuakes, latestPredictions, latestMarkets,
                   isPlaybackMode, marketLoads, predictionLoads, quakeLoads,
                   predictionPanel, signalHistory, lastCorrelation, cycles, events>>

\* ---------------------------------------- app: markets, predictions, quakes

\* A fetch awaited by loadMarkets invocation i settles with out: the stocks
\* (step 1), the sectors, the commodities, the crypto prices (step 4). None of
\* the four is in a try.
MarketsArrive(i, out) ==
    LET inv == marketLoads[i] IN
    /\ out \in IF inv.step = 1 THEN StockOutcomes ELSE OtherOutcomes
    /\ latestMarkets' = IF out.ok /\ inv.step = 1 THEN out.value ELSE latestMarkets
    /\ IF out.ok /\ inv.step < 4
       THEN /\ marketLoads' = [marketLoads EXCEPT ![i].step = inv.step + 1]
            /\ NoSettle
       ELSE /\ marketLoads' = RemoveAt(marketLoads, i)
            /\ Settle("markets", inv.cyc, out.ok, latestClusters, latestMarkets,
                      latestPredictions, hotspots)
    /\ UNCHANGED <<layoutVars, state>>
    /\ UNCHANGED <<clock, mapVars, allNews, latestClusters, latestPredictions,
                   isPlaybackMode, newsLoads, predictionLoads, quakeLoads,
                   panelVars, baselines, signalHistory, lastCorrelation, cycles,
                   events>>

\* runCorrelationAnalysis(): the clusters it analyses.
CorrelationClusters ==
    IF Len(latestClusters) = 0 THEN clusterNews(allNews) ELSE latestClusters

\* addToSignalHistory(signals): the batch goes to the end of the history.
addToSignalHistory(history, signals) == history \o signals

\* The end of runCorrelationAnalysis skipping a batch the history already holds.
recordSignalsOnce(history, signals) ==
    IF Len(signals) > 0
       /\ \E k \in 1..Len(signals) :
             \A h \in 1..Len(history) : history[h] # signals[k]
    THEN addToSignalHistory(history, signals)
    ELSE history

\* The end of runCorrelationAnalysis: if (signals.length > 0) addToSignalHistory.
recordSignals(history, signals) ==
    IF Len(signals) > 0 THEN addToSignalHistory(history, signals) ELSE history

\* The fetchPredictions awaited by loadPredictions invocation i settles with out.
\* A failure is caught: the load resolves either way.
PredictionsArrive(i, out) ==
    LET inv == predictionLoads[i]
        signals == analyzeCorrelations(CorrelationClusters, out.value, latestMarkets)
    IN
    /\ out \in PredictionOutcomes
    /\ predictionLoads' = RemoveAt(predictionLoads, i)
    /\ IF out.ok
       THEN /\ latestPredictions' = out.value
            /\ predictionPanel' = out.value
            /\ feedStatus' = updateFeed(feedStatus, "Polymarket",
                                [status |-> "ok", itemCount |-> Len(out.value)])
            /\ latestClusters' = CorrelationClusters
            /\ lastCorrelation' =
                  [ran |-> TRUE, cyc |-> inv.cyc, clusters |-> CorrelationClusters,
                   siblingPending |->
                      inv.cyc > 0 /\ \E j \in 1..Len(newsLoads) :
                                        newsLoads[j].cyc = inv.cyc]
            /\ signalHistory' = recordSignals(signalHistory, signals)
            /\ Settle("predictions", inv.cyc, TRUE, CorrelationClusters,
                      latestMarkets, out.value, hotspots)
       ELSE /\ feedStatus' = updateFeed(feedStatus, "Polymarket",
                                [status |-> "error", errorMessage |-> out.error])
            /\ Settle("predictions", inv.cyc, TRUE, latestClusters, latestMarkets,
                      latestPredictions, hotspots)
            /\ UNCHANGED <<latestPredictions, predictionPanel, latestClusters,
                           lastCorrelation, signalHistory>>
    /\ UNCHANGED <<layoutVars, state>>
    /\ UNCHANGED <<clock, mapVars, allNews, latestMarkets, isPlaybackMode,
                   newsLoads, marketLoads, quakeLoads, newsPanels, monitorResults,
                   baselines, cycles, events>>

\* The fetchEarthquakes awaited by loadEarthquakes invocation i settles with out.
QuakesArrive(i, out) ==
    LET inv == quakeLoads[i] IN
    /\ out \in QuakeOutcomes
    /\ quakeLoads' = RemoveAt(quakeLoads, i)
    /\ mapQuakes' = IF out.ok THEN out.value ELSE mapQuakes
    /\ Settle("quakes", inv.cyc, out.ok, latestClusters, latestMarkets,
              latestPredictions, hotspots)
    /\ UNCHANGED <<layoutVars, state>>
    /\ UNCHANGED <<clock, hotspots, mapNews, mapNewsShared, scanTotals, dataVars,
                   isPlaybackMode, newsLoads, marketLoads, predictionLoads,
                   panelVars, baselines, signalHistory, lastCorrelation, cycles,
                   events>>

\* ------------------------------------------------------------ app: timers

TimersRunning == initPc = "running" /\ events < MaxEvents

\* setInterval(() => this.loadNews(), REFRESH_INTERVALS.feeds)
FeedsTick ==
    /\ TimersRunning
    /\ Len(newsLoads) < MaxNewsLoads
    /\ events' = events + 1
    /\ newsLoads' = Append(newsLoads,
            [cyc |-> 0, step |-> 1, awaiting |-> "feed", items |-> <<>>])
    /\ allNews' = <<>>
    /\ mapNewsShared' = FALSE
    /\ UNCHANGED <<layoutVars, state>>
    /\ UNCHANGED <<clock, hotspots, mapNews, mapQuakes, scanTotals, latestClusters,
                   latestPredictions, latestMarkets, isPlaybackMode, initVars,
                   marketLoads, predictionLoads, quakeLoads, panelVars, storeVars,
                   lastCorrelation, cycles>>

\* setInterval(() => this.loadMarkets(), REFRESH_INTERVALS.markets)
MarketsTick ==
    /\ TimersRunning
    /\ Len(marketLoads) < MaxOtherLoads
    /\ events' = events + 1
    /\ marketLoads' = Append(marketLoads, [cyc |-> 0, step |-> 1])
    /\ UNCHANGED <<layoutVars, state>>
    /\ UNCHANGED <<clock, mapVars, dataVars, isPlaybackMode, initVars, newsLoads,
                   predictionLoads, quakeLoads, panelVars, storeVars,
                   lastCorrelation, cycles>>

\* setInterval(() => this.loadPredictions(), REFRESH_INTERVALS.predictions)
PredictionsTick ==
    /\ TimersRunning
    /\ Len(predictionLoads) < MaxOtherLoads
    /\ events' = events + 1
    /\ predictionLoads' = Append(predictionLoads, [cyc |-> 0])
    /\ UNCHANGED <<layoutVars, state>>
    /\ UNCHANGED <<clock, mapVars, dataVars, isPlaybackMode, initVars, newsLoads,
                   marketLoads, quakeLoads, panelVars, storeVars, lastCorrelation,
                   cycles>>

\* setInterval(() => this.loadEarthquakes(), 5 * 60 * 1000)
QuakesTick ==
    /\ TimersRunning
    /\ Len(quakeLoads) < MaxOtherLoads
    /\ events' = events + 1
    /\ quakeLoads' = Append(quakeLoads, [cyc |-> 0])
    /\ UNCHANGED <<layoutVars, state>>
    /\ UNCHANGED <<clock, mapVars, dataVars, isPlaybackMode, initVars, newsLoads,
                   marketLoads, predictionLoads, panelVars, storeVars,
                   lastCorrelation, cycles>>

\* setInterval(saveCurrentSnapshot, 15 * 60 * 1000): a period later.
SnapshotTick ==
    /\ TimersRunning
    /\ events' = events + 1
    /\ clock' = clock + SnapshotPeriod
    /\ snapshots' = saveCurrentSnapshot(snapshots, clock + SnapshotPeriod,
                                        isPlaybackMode, latestClusters,
                                        latestMarkets, latestPredictions, hotspots)
    /\ UNCHANGED <<layoutVars, state>>
    /\ UNCHANGED <<mapVars, dataVars, isPlaybackMode, initVars, loadVars,
                   panelVars, baselines, signalHistory, lastCorrelation, cycles>>

\* ---------------------------------------------------------- app: playback

PlaybackReady == initPc # "constructed" /\ events < MaxEvents

\* restoreSnapshot(snapshot), as the playback callback runs it for a snapshot.
PlaybackSnapshot(snap) ==
    /\ PlaybackReady
    /\ events' = events + 1
    /\ isPlaybackMode' = TRUE
    /\ newsPanels' = [c \in NewsCategories |-> [newsPanels[c] EXCEPT !.view = "loading"]]
    /\ latestClusters' = snap.events
    /\ latestPredictions' = RestoredPredictions(snap)
    /\ predictionPanel' = RestoredPredictions(snap)
    /\ hotspots' = setHotspotLevels(hotspots, snap.hotspotLevels)
    /\ UNCHANGED <<layoutVars, state>>
    /\ UNCHANGED <<clock, mapNews, mapNewsShared, mapQuakes, scanTotals, allNews,
                   latestMarkets, initVars, loadVars, monitorResults, feedStatus,
                   storeVars, lastCorrelation, cycles>>

\* The playback callback with null, which ends a playback: back to live, and
\* loadAllData() unawaited.
PlaybackLive ==
    /\ PlaybackReady
    /\ isPlaybackMode
    /\ Len(newsLoads) < MaxNewsLoads /\ Len(marketLoads) < MaxOtherLoads
    /\ Len(predictionLoads) < MaxOtherLoads /\ Len(quakeLoads) < MaxOtherLoads
    /\ events' = events + 1
    /\ isPlaybackMode' = FALSE
    /\ cycles' = cycles + 1
    /\ loadAllData(cycles + 1)
    /\ UNCHANGED <<layoutVars, state>>
    /\ UNCHANGED <<clock, hotspots, mapNews, mapQuakes, scanTotals, latestClusters,
                   latestPredictions, latestMarkets, initVars, panelVars,
                   storeVars, lastCorrelation>>

Next ==
    \/ init
    \/ \E i \in 1..Len(newsLoads) :
          \E out \in FeedOutcomes(CategoryAt(newsLoads[i].step)) :
             NewsFeedArrives(i, out)
    \/ \E i \in 1..Len(newsLoads) : NewsBaselineDone(i)
    \/ \E i \in 1..Len(marketLoads) : \E out \in StockOutcomes \cup OtherOutcomes :
          MarketsArrive(i, out)
    \/ \E i \in 1..Len(predictionLoads) : \E out \in PredictionOutcomes :
          PredictionsArrive(i, out)
    \/ \E i \in 1..Len(quakeLoads) : \E out \in QuakeOutcomes : QuakesArrive(i, out)
    \/ FeedsTick
    \/ MarketsTick
    \/ PredictionsTick
    \/ QuakesTick
    \/ SnapshotTick
    \/ \E snap \in {snapshots[k] : k \in 1..Len(snapshots)} : PlaybackSnapshot(snap)
    \/ PlaybackLive

Spec == Init /\ [][Next]_vars

\* ------------------------------------------------------------ ScoreSpec
\* The scoring pass on its own: loadNews' call map.updateHotspotActivity(allNews)
\* for every news list over a pool of items that covers each branch of the scan.

\* Ages (minutes before ClockStart) on both sides of the 1 h, 6 h and 24 h limits.
PoolAges == {59, 60, 359, 360, 1439, 1440}

ItemPool ==
    {NewsItem(TitleOne, FALSE, ClockStart - a, "p") : a \in PoolAges}
    \cup {NewsItem(TitleOne, al, ClockStart, "p") : al \in BOOLEAN}
    \cup {NewsItem(TitleTwo, FALSE, NoDate, "p"),
          NewsItem(TitleBoth, FALSE, ClockStart - 1440, "p"),
          NewsItem(TitleNone, TRUE, ClockStart, "p")}

RECURSIVE SeqsUpTo(_, _)
SeqsUpTo(S, n) ==
    IF n = 0 THEN {<<>>}
    ELSE LET shorter == SeqsUpTo(S, n - 1)
         IN  shorter \cup {Append(q, x) : q \in {r \in shorter : Len(r) = n - 1}, x \in S}

NewsLists == SeqsUpTo(ItemPool, MaxNews)

ScoreInit ==
    /\ clock = ClockStart
    /\ hotspots = INTEL_HOTSPOTS
    /\ mapNews = <<>>
    /\ mapNewsShared = FALSE
    /\ scanTotals = <<>>
    /\ allNews \in NewsLists
    /\ mapQuakes = <<>>
    /\ latestClusters = <<>>
    /\ latestPredictions = <<>>
    /\ latestMarkets = <<>>
    /\ isPlaybackMode = FALSE
    /\ initPc = "constructed"
    /\ initPending = {}
    /\ newsLoads = <<>>
    /\ marketLoads = <<>>
    /\ predictionLoads = <<>>
    /\ quakeLoads = <<>>
    /\ newsPanels = [c \in NewsCategories |-> [view |-> "empty", items |-> <<>>, deviation |-> NoDeviation]]
    /\ predictionPanel = <<>>
    /\ monitorResults = <<>>
    /\ feedStatus = [n \in StatusSources |-> NoStatus]
    /\ baselines = [c \in NewsCategories |-> NoBaseline]
    /\ snapshots = <<StoredSnapshot>>
    /\ signalHistory = <<>>
    /\ lastCorrelation = NoCorrelation
    /\ cycles = 0
    /\ events = 0
    /\ savedOrder = <<>>
    /\ panelOrder = <<>>
    /\ state = initialState

\* this.map?.updateHotspotActivity(this.allNews)
ScorePass ==
    /\ scanTotals = <<>>
    /\ hotspots' = updateHotspotActivity(hotspots, allNews, clock)
    /\ scanTotals' = PassTotals(hotspots, allNews, clock)
    /\ mapNews' = allNews
    /\ mapNewsShared' = TRUE
    /\ UNCHANGED <<layoutVars, state>>
    /\ UNCHANGED <<clock, mapQuakes, dataVars, isPlaybackMode, initVars, loadVars,
                   panelVars, storeVars, lastCorrelation, cycles, events>>

ScoreNext == ScorePass

ScoreSpec == ScoreInit /\ [][ScoreNext]_vars

\* ----------------------------------------------------------- RescoreSpec
\* Scoring passes and restores in any order: the end of a loadNews cycle over any
\* short news list, and the playback callback with a stored snapshot.

\* Passes and restores in one run.
MaxOps == 3

\* Longest news list of a pass in RescoreSpec.
MaxRescoreNews == 2

RescoreLists == SeqsUpTo(ItemPool, MaxRescoreNews)

RescoreInit ==
    /\ clock = ClockStart
    /\ hotspots = INTEL_HOTSPOTS
    /\ mapNews = <<>>
    /\ mapNewsShared = FALSE
    /\ scanTotals = <<>>
    /\ allNews = <<>>
    /\ mapQuakes = <<>>
    /\ latestClusters = <<>>
    /\ latestPredictions = <<>>
    /\ latestMarkets = <<>>
    /\ isPlaybackMode = FALSE
    /\ initPc = "constructed"
    /\ initPending = {}
    /\ newsLoads = <<>>
    /\ marketLoads = <<>>
    /\ predictionLoads = <<>>
    /\ quakeLoads = <<>>
    /\ newsPanels = [c \in NewsCategories |-> [view |-> "empty", items |-> <<>>, deviation |-> NoDeviation]]
    /\ predictionPanel = <<>>
    /\ monitorResults = <<>>
    /\ feedStatus = [n \in StatusSources |-> NoStatus]
    /\ baselines = [c \in NewsCategories |-> NoBaseline]
    /\ snapshots = <<StoredSnapshot>>
    /\ signalHistory = <<>>
    /\ lastCorrelation = NoCorrelation
    /\ cycles = 0
    /\ events = 0
    /\ savedOrder = <<>>
    /\ panelOrder = <<>>
    /\ state = initialState

\* The end of loadNews once allNews holds the cycle's items:
\* updateHotspotActivity(allNews), updateMonitorResults(), clusterNews(allNews).
RescorePass(news) ==
    /\ events < MaxOps
    /\ events' = events + 1
    /\ allNews' = news
    /\ hotspots' = updateHotspotActivity(hotspots, news, clock)
    /\ scanTotals' = PassTotals(hotspots, news, clock)
    /\ mapNews' = news
    /\ mapNewsShared' = TRUE
    /\ monitorResults' = news
    /\ latestClusters' = clusterNews(news)
    /\ UNCHANGED <<layoutVars, state>>
    /\ UNCHANGED <<clock, mapQuakes, latestPredictions, latestMarkets,
                   isPlaybackMode, initVars, loadVars, newsPanels, predictionPanel,
                   feedStatus, storeVars, lastCorrelation, cycles>>

\* The playback callback with a snapshot: isPlaybackMode, restoreSnapshot(snap).
RescoreRestore(snap) ==
    /\ events < MaxOps
    /\ events' = events + 1
    /\ isPlaybackMode' = TRUE
    /\ newsPanels' = [c \in NewsCategories |-> [newsPanels[c] EXCEPT !.view = "loading"]]
    /\ latestClusters' = snap.events
    /\ latestPredictions' = RestoredPredictions(snap)
    /\ predictionPanel' = RestoredPredictions(snap)
    /\ hotspots' = setHotspotLevels(hotspots, snap.hotspotLevels)
    /\ UNCHANGED <<layoutVars, state>>
    /\ UNCHANGED <<clock, mapNews, mapNewsShared, mapQuakes, scanTotals, allNews,
                   latestMarkets, initVars, loadVars, monitorResults, feedStatus,
                   storeVars, lastCorrelation, cycles>>

RescoreNext ==
    \/ \E news \in RescoreLists : RescorePass(news)
    \/ \E snap \in {snapshots[k] : k \in 1..Len(snapshots)} : RescoreRestore(snap)

RescoreSpec == RescoreInit /\ [][RescoreNext]_vars

\* ------------------------------------------------------------- PanelSpec
\* createPanels for every saved panel order over a few keys, and some full ones.

\* Longest saved order drawn from SavedKeys.
MaxSaved == 4

\* Keys of a saved order: panels that exist, and one that no longer does.
SavedKeys == {"politics", "monitors", "tech", "intel", "legacy"}

\* JSON.parse(localStorage.getItem('panel-order')): short orders over SavedKeys,
\* and orders that hold every panel, as savePanelOrder writes them.
SavedOrders ==
    SeqsUpTo(SavedKeys, MaxSaved)
    \cup {defaultOrder,
          [k \in 1..Len(defaultOrder) |-> defaultOrder[Len(defaultOrder) + 1 - k]],
          <<"monitors", "intel">> \o SubSeq(defaultOrder, 1, 14)}

PanelInit ==
    /\ clock = ClockStart
    /\ hotspots = INTEL_HOTSPOTS
    /\ mapNews = <<>>
    /\ mapNewsShared = FALSE
    /\ scanTotals = <<>>
    /\ allNews = <<>>
    /\ mapQuakes = <<>>
    /\ latestClusters = <<>>
    /\ latestPredictions = <<>>
    /\ latestMarkets = <<>>
    /\ isPlaybackMode = FALSE
    /\ initPc = "constructed"
    /\ initPending = {}
    /\ newsLoads = <<>>
    /\ marketLoads = <<>>
    /\ predictionLoads = <<>>
    /\ quakeLoads = <<>>
    /\ newsPanels = [c \in NewsCategories |-> [view |-> "empty", items |-> <<>>, deviation |-> NoDeviation]]
    /\ predictionPanel = <<>>
    /\ monitorResults = <<>>
    /\ feedStatus = [n \in StatusSources |-> NoStatus]
    /\ baselines = [c \in NewsCategories |-> NoBaseline]
    /\ snapshots = <<StoredSnapshot>>
    /\ signalHistory = <<>>
    /\ lastCorrelation = NoCorrelation
    /\ cycles = 0
    /\ events = 0
    /\ savedOrder \in SavedOrders
    /\ panelOrder = <<>>
    /\ state = initialState

\* createPanels(): the panels are appended in the merged order.
createPanels ==
    /\ panelOrder = <<>>
    /\ panelOrder' = mergePanelOrder(savedOrder)
    /\ state' = initialState
    /\ UNCHANGED <<clock, mapVars, dataVars, isPlaybackMode, initVars, loadVars,
                   panelVars, storeVars, lastCorrelation, cycles, events,
                   savedOrder>>

PanelNext == createPanels

PanelSpec == PanelInit /\ [][PanelNext]_vars

\* --------------------------------------------------------------- MapSpec
\* The map's controls in any order: the zoom buttons and the wheel (zoomIn,
\* zoomOut), the reset button, the app's view buttons (setView) and the time
\* slider (setTimeRange).

MapInit ==
    /\ clock = ClockStart
    /\ hotspots = INTEL_HOTSPOTS
    /\ mapNews = <<>>
    /\ mapNewsShared = FALSE
    /\ scanTotals = <<>>
    /\ allNews = <<>>
    /\ mapQuakes = <<>>
    /\ latestClusters = <<>>
    /\ latestPredictions = <<>>
    /\ latestMarkets = <<>>
    /\ isPlaybackMode = FALSE
    /\ initPc = "constructed"
    /\ initPending = {}
    /\ newsLoads = <<>>
    /\ marketLoads = <<>>
    /\ predictionLoads = <<>>
    /\ quakeLoads = <<>>
    /\ newsPanels = [c \in NewsCategories |-> [view |-> "empty", items |-> <<>>, deviation |-> NoDeviation]]
    /\ predictionPanel = <<>>
    /\ monitorResults = <<>>
    /\ feedStatus = [n \in StatusSources |-> NoStatus]
    /\ baselines = [c \in NewsCategories |-> NoBaseline]
    /\ snapshots = <<StoredSnapshot>>
    /\ signalHistory = <<>>
    /\ lastCorrelation = NoCorrelation
    /\ cycles = 0
    /\ events = 0
    /\ savedOrder = <<>>
    /\ panelOrder = defaultOrder
    /\ state = initialState

restVars ==
    <<clock, mapVars, dataVars, isPlaybackMode, initVars, loadVars, panelVars,
      storeVars, lastCorrelation, cycles, events, layoutVars>>

\* The '+' button, or the wheel turned up.
ZoomIn == state' = zoomIn(state) /\ UNCHANGED restVars

\* The '-' button, or the wheel turned down.
ZoomOut == state' = zoomOut(state) /\ UNCHANGED restVars

\* The reset button.
Reset == state' = reset(state) /\ UNCHANGED restVars

\* A view button of the app.
SetView(view) == state' = setView(state, view) /\ UNCHANGED restVars

\* A button of the time slider.
SetTimeRange(range) == state' = setTimeRange(state, range) /\ UNCHANGED restVars

MapNext ==
    \/ ZoomIn
    \/ ZoomOut
    \/ Reset
    \/ \E view \in MapViews : SetView(view)
    \/ \E range \in TimeRanges : SetTimeRange(range)

MapSpec == MapInit /\ [][MapNext]_vars

\* ------------------------------------------------------------- LevelsSpec
\* setHotspotLevels for any levels map, between scoring passes and restores.

\* The names a levels map may hold: the hotspots', and one of no hotspot.
LevelKeys == HotspotNames \cup {"Nowhere"}

\* The values a levels map may hold for a name: a level, or the empty string.
LevelValues == {"low", "elevated", "high", ""}

\* Record<string, string>: every map from some of the names to the values.
LevelMaps == UNION {[K -> LevelValues] : K \in SUBSET LevelKeys}

\* Longest news list of a pass in LevelsSpec.
MaxLevelNews == 1

LevelLists == SeqsUpTo(ItemPool, MaxLevelNews)

\* map.setHotspotLevels(levels)
SetLevels(levels) ==
    /\ events < MaxOps
    /\ events' = events + 1
    /\ hotspots' = setHotspotLevels(hotspots, levels)
    /\ UNCHANGED <<layoutVars, state>>
    /\ UNCHANGED <<clock, mapNews, mapNewsShared, mapQuakes, scanTotals, dataVars,
                   isPlaybackMode, initVars, loadVars, panelVars, storeVars,
                   lastCorrelation, cycles>>

LevelsNext ==
    \/ \E news \in LevelLists : RescorePass(news)
    \/ \E snap \in {snapshots[k] : k \in 1..Len(snapshots)} : RescoreRestore(snap)
    \/ \E levels \in LevelMaps \cup {getHotspotLevels(hotspots)} : SetLevels(levels)

LevelsSpec == RescoreInit /\ [][LevelsNext]_vars

\* ---------------------------------------------------------------- claims

SpotIdx == 1..Len(INTEL_HOTSPOTS)

Scored == Len(scanTotals) = Len(hotspots) /\ Len(hotspots) > 0

Stored == {snapshots[k] : k \in 1..Len(snapshots)}

RefreshTick == FeedsTick \/ MarketsTick \/ PredictionsTick \/ QuakesTick

\* C1: while isPlaybackMode is true (a snapshot was delivered, null not yet), no
\* refresh timer starts a loadNews, loadMarkets, loadPredictions or
\* loadEarthquakes cycle.
C1_NoRefreshInPlayback == [][isPlaybackMode => ~RefreshTick]_vars

\* C2: when the loadPredictions of a loadAllData cycle invokes
\* analyzeCorrelations, that cycle's loadNews is no longer in progress: it has
\* assigned latestClusters from the cycle's complete news.
C2_CorrelationAfterNews ==
    lastCorrelation.ran => ~lastCorrelation.siblingPending

\* C3: no two loadNews invocations are in progress at once.
C3_OneLoadNews == Len(newsLoads) <= 1

\* C4: whichever fetches of the initial load fail, init is not rejected: it goes
\* on to start the refresh timers and the snapshot saving.
C4_InitNeverRejected == initPc # "rejected"

\* C5: every loadNews cycle ends by scoring the hotspots and clustering over the
\* items it fetched, whichever category's fetch (intel included) failed.
C5_CycleEndsScored ==
    [][Len(newsLoads') < Len(newsLoads) =>
          /\ mapNews' = allNews'
          /\ hotspots' = updateHotspotActivity(hotspots, allNews', clock)
          /\ latestClusters' = clusterNews(allNews')]_vars

\* C6: right after restoreSnapshot(S) the events are S.events, the market prices
\* are S.marketPrices, the predictions carry S.predictions' titles and yesPrices
\* in order, and every hotspot has the level S.hotspotLevels records for it.
C6_RestoreReproduces ==
    [][\A snap \in Stored :
          PlaybackSnapshot(snap) =>
             /\ latestClusters' = snap.events
             /\ marketPricesOf(latestMarkets') = snap.marketPrices
             /\ [i \in 1..Len(latestPredictions') |->
                    [title |-> latestPredictions'[i].title,
                     yesPrice |-> latestPredictions'[i].yesPrice]] = snap.predictions
             /\ \A i \in SpotIdx :
                   hotspots'[i].name \in DOMAIN snap.hotspotLevels =>
                      hotspots'[i].level = snap.hotspotLevels[hotspots'[i].name]]_vars

\* C7: the store grows only by the startup save, made when init goes on after
\* all four initial loads have resolved, and by the 15-minute tick; either saves
\* exactly one snapshot when isPlaybackMode is false and nothing when it is true.
C7_SaveExactlyWhenLive ==
    [][LET startup == initPc = "loading" /\ initPc' = "running"
           grown == /\ Len(snapshots') = Len(snapshots) + 1
                    /\ SubSeq(snapshots', 1, Len(snapshots)) = snapshots
       IN  /\ startup => initPending' = {}
           /\ (startup \/ SnapshotTick) =>
                 IF isPlaybackMode THEN snapshots' = snapshots ELSE grown
           /\ ~(startup \/ SnapshotTick) => snapshots' = snapshots]_vars

\* C7 witness: the startup save was made, then a tick fired in playback mode and
\* saved nothing.
C7_Witness ==
    /\ initPc = "running" /\ isPlaybackMode
    /\ clock = ClockStart + SnapshotPeriod
    /\ Len(snapshots) = 2
    /\ snapshots[2].timestamp = ClockStart

\* C8: in every state a reader can run in, all hotspots carry the outcome of the
\* same scoring pass: hasBreaking and status are the latest pass's for every
\* hotspot, and the levels are the latest pass's for every hotspot unless a
\* restore has since set them all from one stored snapshot.
C8_WholePassVisible ==
    Scored =>
        /\ \A i \in SpotIdx :
              /\ hotspots[i].hasBreaking = scanTotals[i].hasBreaking
              /\ hotspots[i].status = Classify(hotspots[i], scanTotals[i]).status
        /\ \/ \A i \in SpotIdx :
                 hotspots[i].level = Classify(hotspots[i], scanTotals[i]).level
           \/ \E snap \in Stored : \A i \in SpotIdx :
                 hotspots[i].level = snap.hotspotLevels[hotspots[i].name]

\* C8 witness: a snapshot was saved (getHotspotLevels read) after a scoring pass
\* that changed both hotspots, while another loadNews cycle is in progress.
C8_Witness ==
    /\ Scored /\ Len(newsLoads) > 0
    /\ Len(snapshots) = 3
    /\ snapshots[3].hotspotLevels = getHotspotLevels(hotspots)
    /\ hotspots[1].level = "high" /\ hotspots[2].level = "high"

\* C9: after a scoring pass each hotspot's level is high if hasBreaking or
\* matchedCount >= 4 or score >= 10, otherwise elevated if matchedCount >= 2 or
\* score >= 4, otherwise low; and its status is "Monitoring" exactly when
\* matchedCount = 0.
C9_LevelOfTotals ==
    Scored =>
        \A i \in SpotIdx :
            LET tot == scanTotals[i] IN
            /\ hotspots[i].level =
                  IF tot.hasBreaking \/ tot.matchedCount >= 4 \/ tot.score >= 10
                  THEN "high"
                  ELSE IF tot.matchedCount >= 2 \/ tot.score >= 4 THEN "elevated"
                  ELSE "low"
            /\ (hotspots[i].status = "Monitoring") <=> (tot.matchedCount = 0)

\* C9 witness: one pass left a hotspot high by score alone (score >= 10, under
\* four matches, no alert) and one low with a single match (score under 4).
C9_Witness ==
    /\ Scored
    /\ scanTotals[1].score >= 10 /\ scanTotals[1].matchedCount < 4
    /\ ~scanTotals[1].hasBreaking /\ hotspots[1].level = "high"
    /\ scanTotals[2].matchedCount = 1 /\ scanTotals[2].score < 4
    /\ hotspots[2].level = "low" /\ hotspots[2].status = "Recent mentions"

\* The keywords of spot found in item's title, case ignored.
KeywordsFound(spot, item) ==
    {j \in 1..Len(spot.keywords) :
        includes(toLowerCase(item.title), toLowerCase(spot.keywords[j]))}

\* What C10 has one matching item add to the score at time t.
StatedContribution(spot, item, t) ==
    2 * Cardinality(KeywordsFound(spot, item))
    + (IF item.isAlert THEN 5 ELSE 0)
    + (IF item.pubDate = NoDate THEN 0
       ELSE IF t - item.pubDate < 60 THEN 3
       ELSE IF t - item.pubDate < 360 THEN 2
       ELSE IF t - item.pubDate < 1440 THEN 1
       ELSE 0)

RECURSIVE SumOver(_, _, _, _)
SumOver(idx, spot, news, t) ==
    IF idx = {} THEN 0
    ELSE LET k == CHOOSE x \in idx : TRUE
         IN  StatedContribution(spot, news[k], t)
             + SumOver(idx \ {k}, spot, news, t)

\* C10: a pass's score for a hotspot is the sum, over the items whose title
\* holds at least one of its keywords, of 2 x (keywords found) + 5 if alert + the
\* recency bonus (3 under 1 h, 2 under 6 h, 1 under 24 h, else 0); matchedCount
\* is the number of those items. One non-alert single-keyword item published just
\* now gives score 5 and elevated; the same item as an alert gives score 10,
\* hasBreaking and high.
C10_ScoreIsStatedSum ==
    Scored =>
        /\ \A i \in SpotIdx :
              LET matching == {k \in 1..Len(mapNews) :
                                 KeywordsFound(hotspots[i], mapNews[k]) # {}}
              IN  /\ scanTotals[i].matchedCount = Cardinality(matching)
                  /\ scanTotals[i].score = SumOver(matching, hotspots[i], mapNews, clock)
        /\ mapNews = <<NewsItem(TitleOne, FALSE, clock, "p")>> =>
              /\ scanTotals[1] = [score |-> 5, hasBreaking |-> FALSE, matchedCount |-> 1]
              /\ hotspots[1].level = "elevated"
        /\ mapNews = <<NewsItem(TitleOne, TRUE, clock, "p")>> =>
              /\ scanTotals[1] = [score |-> 10, hasBreaking |-> TRUE, matchedCount |-> 1]
              /\ hotspots[1].level = "high"

\* C10 witness: the pass over the one alert published just now, after which the
\* hotspot it names has score 10 and is high, the other hotspot score 0.
C10_Witness ==
    /\ Scored
    /\ mapNews = <<NewsItem(TitleOne, TRUE, clock, "p")>>
    /\ scanTotals[1].score = 10 /\ hotspots[1].level = "high"
    /\ scanTotals[2].score = 0 /\ scanTotals[2].matchedCount = 0

C12_FullReevaluation ==
    [][\A news \in RescoreLists :
          RescorePass(news) =>
             /\ hotspots' = updateHotspotActivity(INTEL_HOTSPOTS, news, clock)
             /\ news = <<>> =>
                   \A i \in SpotIdx :
                      /\ hotspots'[i].level = "low"
                      /\ hotspots'[i].status = "Monitoring"
                      /\ hotspots'[i].hasBreaking = FALSE]_vars

\* C12 witness: a restore set the first hotspot to high, then a pass over an empty
\* news list left both hotspots low, "Monitoring" and not breaking.
C12_Witness ==
    /\ Scored /\ isPlaybackMode /\ events = 2
    /\ mapNews = <<>>
    /\ \A i \in SpotIdx :
          /\ hotspots[i].level = "low"
          /\ hotspots[i].status = "Monitoring"
          /\ ~hotspots[i].hasBreaking

C14_HighTierStatus ==
    Scored =>
        \A i \in SpotIdx :
            LET alerted == \E k \in 1..Len(mapNews) :
                              /\ KeywordsFound(hotspots[i], mapNews[k]) # {}
                              /\ mapNews[k].isAlert
            IN  /\ (hotspots[i].status = "BREAKING NEWS") <=> alerted
                /\ (hotspots[i].status = "High activity") <=>
                      (hotspots[i].level = "high" /\ ~alerted)

\* C14 witness: a pass over a list that holds an alert naming no hotspot left the
\* first hotspot high by its score, with status "High activity".
C14_Witness ==
    /\ Scored
    /\ \E k \in 1..Len(mapNews) : mapNews[k].isAlert
    /\ hotspots[1].level = "high" /\ hotspots[1].status = "High activity"
    /\ ~hotspots[1].hasBreaking

\* C15: in every state the levels a save would record have the names of the
\* map's hotspots as their keys, each with that hotspot's level, or low where
\* the level is not set; and every snapshot that is saved records exactly
\* those: its hotspotLevels' keys are names of known hotspots and its values
\* their current levels.
C15_SavedLevelsOfKnownHotspots ==
    [][LET known == {hotspots'[i].name : i \in SpotIdx}
           current(n) ==
              LET spot == CHOOSE x \in {hotspots'[i] : i \in SpotIdx} : x.name = n
              IN  IF spot.level \in Levels THEN spot.level ELSE "low"
           read == getHotspotLevels(hotspots')
       IN  /\ DOMAIN read \subseteq known
           /\ \A n \in DOMAIN read : read[n] = current(n)
           /\ Len(snapshots') > Len(snapshots) =>
                 LET saved == snapshots'[Len(snapshots')].hotspotLevels
                 IN  /\ DOMAIN saved \subseteq known
                     /\ \A n \in DOMAIN saved : saved[n] = current(n)]_vars

\* C15 witness: the startup save was made after a pass that left the first
\* hotspot elevated and the second low, and recorded both under their names.
C15_Witness ==
    /\ Len(snapshots) = 2
    /\ snapshots[2].timestamp = ClockStart
    /\ snapshots[2].hotspotLevels = ("Gulf" :> "elevated" @@ "Strait" :> "low")
    /\ hotspots[1].level = "elevated" /\ hotspots[2].level = "low"

\* C16: no step lowers a category's sampleCount. The baselines change only when
\* the updateBaseline awaited after a successful fetch returns: that category's
\* sampleCount grows by exactly one with the item count folded in, the others
\* stay, and the deviation shown for the category is the one of that item count
\* against the baseline just returned. A successful fetch leaves exactly that
\* one update pending; a failed fetch leaves none and changes no baseline.
C16_BaselinePerSuccess ==
    [][/\ \A c \in NewsCategories :
             baselines'[c].sampleCount >= baselines[c].sampleCount
       /\ \A i \in 1..Len(newsLoads) :
             LET inv == newsLoads[i]
                 cat == CategoryAt(inv.step)
             IN  /\ NewsBaselineDone(i) =>
                       /\ baselines'[cat].sampleCount = baselines[cat].sampleCount + 1
                       /\ baselines'[cat].total = baselines[cat].total + Len(inv.items)
                       /\ \A c \in NewsCategories \ {cat} : baselines'[c] = baselines[c]
                       /\ newsPanels'[cat].deviation =
                             [observed |-> Len(inv.items), baseline |-> baselines'[cat]]
                 /\ \A out \in FeedOutcomes(cat) :
                       NewsFeedArrives(i, out) =>
                          /\ baselines' = baselines
                          /\ out.ok =>
                                /\ newsLoads'[i].awaiting = "baseline"
                                /\ newsLoads'[i].step = inv.step
                          /\ ~out.ok =>
                                \A j \in 1..Len(newsLoads') :
                                   newsLoads'[j].awaiting = "baseline" =>
                                      \E k \in 1..Len(newsLoads) :
                                         /\ k # i
                                         /\ newsLoads[k] = newsLoads'[j]
       /\ (\A i \in 1..Len(newsLoads) : ~NewsBaselineDone(i)) =>
             baselines' = baselines]_vars

\* C16 witness: two loadNews cycles have run; the politics fetch failed in one
\* of them, the intel fetch in neither; the intel panel shows its deviation
\* against the baseline of two samples.
C16_Witness ==
    /\ baselines["politics"].sampleCount = 1
    /\ baselines["intel"].sampleCount = 2
    /\ feedStatus["Politics"].status = "error"
    /\ newsPanels["intel"].deviation =
          [observed |-> 1, baseline |-> [sampleCount |-> 2, total |-> 2]]

\* C17: in every step the history before is a prefix of the history after. A
\* correlation run (a successful predictions fetch) puts the signals it returned,
\* in their order, at the end of the history, whether or not the history holds
\* them already, and leaves it unchanged when it returned none; no other
\* step changes the history.
C17_HistoryAppendOnly ==
    [][/\ Len(signalHistory') >= Len(signalHistory)
       /\ SubSeq(signalHistory', 1, Len(signalHistory)) = signalHistory
       /\ \A i \in 1..Len(predictionLoads) :
             /\ PredictionsArrive(i, Fulfilled(<<PredA, PredB>>)) =>
                   LET returned == analyzeCorrelations(latestClusters',
                                                       latestPredictions',
                                                       latestMarkets')
                   IN  /\ Len(signalHistory') = Len(signalHistory) + Len(returned)
                       /\ SubSeq(signalHistory', Len(signalHistory) + 1,
                                 Len(signalHistory')) = returned
             /\ PredictionsArrive(i, Rejected) => signalHistory' = signalHistory
       /\ (\A i \in 1..Len(predictionLoads) : \A out \in PredictionOutcomes :
              ~PredictionsArrive(i, out)) => signalHistory' = signalHistory]_vars

\* C17 witness: two correlation runs returned the same one-signal batch and the
\* history holds it twice.
C17_Witness ==
    /\ Len(signalHistory) = 2
    /\ signalHistory[1] = signalHistory[2]
    /\ lastCorrelation.ran

\* C18: every snapshot that is saved carries the time of the save, latestClusters
\* as its events, the (title, yesPrice) pairs of latestPredictions in their
\* order, and as marketPrices exactly the symbols of latestMarkets that have a
\* price, each with that price; a symbol without a price is absent.
C18_SnapshotSamplesState ==
    [][Len(snapshots') > Len(snapshots) =>
          LET saved == snapshots'[Len(snapshots')]
              priced == {j \in 1..Len(latestMarkets') :
                            latestMarkets'[j].price # NoPrice}
          IN  /\ saved.timestamp = clock'
              /\ saved.events = latestClusters'
              /\ Len(saved.predictions) = Len(latestPredictions')
              /\ \A j \in 1..Len(latestPredictions') :
                    /\ saved.predictions[j].title = latestPredictions'[j].title
                    /\ saved.predictions[j].yesPrice = latestPredictions'[j].yesPrice
                    /\ DOMAIN saved.predictions[j] = {"title", "yesPrice"}
              /\ DOMAIN saved.marketPrices = {latestMarkets'[j].symbol : j \in priced}
              /\ \A j \in priced :
                    saved.marketPrices[latestMarkets'[j].symbol] = latestMarkets'[j].price
              /\ \A j \in 1..Len(latestMarkets') :
                    (\A k \in priced : latestMarkets'[k].symbol # latestMarkets'[j].symbol)
                       => latestMarkets'[j].symbol \notin DOMAIN saved.marketPrices]_vars

\* C18 witness: the startup save, made with two predictions, some events, and
\* markets of which one symbol has a price and one has none.
C18_Witness ==
    /\ Len(snapshots) = 2
    /\ snapshots[2].marketPrices = ("SPX" :> 10)
    /\ Len(latestMarkets) = 2 /\ latestMarkets[2].price = NoPrice
    /\ snapshots[2].predictions =
          <<[title |-> PredA.title, yesPrice |-> PredA.yesPrice],
            [title |-> PredB.title, yesPrice |-> PredB.yesPrice]>>
    /\ Len(snapshots[2].events) > 0

\* How often x occurs in arr.
Count(arr, x) == Cardinality({j \in 1..Len(arr) : arr[j] = x})

DefaultPanels == {defaultOrder[k] : k \in 1..Len(defaultOrder)}

\* The default panels a saved order lacks, monitors apart, in default order.
MissingFrom(saved) ==
    SelectSeq(defaultOrder, LAMBDA k : k # "monitors" /\ Count(saved, k) = 0)

\* In order, the block of missing panels sits directly after the first politics
\* when the saved order holds politics, and at the front when it does not.
MissingAfterPolitics(order, saved) ==
    LET block == MissingFrom(saved)
        at == IF Count(saved, "politics") > 0
              THEN CHOOSE j \in 1..Len(order) :
                      order[j] = "politics" /\ \A i \in 1..(j - 1) : order[i] # "politics"
              ELSE 0
    IN  /\ at + Len(block) <= Len(order)
        /\ SubSeq(order, at + 1, at + Len(block)) = block

\* C19 as stated: whatever the saved order (unknown, missing and repeated keys
\* included), the merged order holds every default panel exactly once and no
\* other key, ends with monitors, has the missing panels directly after politics
\* (at the front without politics), and is the default order for an empty one.
C19_MergedOrderExact ==
    panelOrder # <<>> =>
        /\ \A k \in DefaultPanels : Count(panelOrder, k) = 1
        /\ \A j \in 1..Len(panelOrder) : panelOrder[j] \in DefaultPanels
        /\ panelOrder[Len(panelOrder)] = "monitors"
        /\ MissingAfterPolitics(panelOrder, savedOrder)
        /\ savedOrder = <<>> => panelOrder = defaultOrder

\* C19 amended: the merged order holds no key but default panels, ends with
\* monitors, has the missing panels directly after the first politics (at the
\* front without politics), keeps the saved panels in their saved order, and is
\* the default order for an empty saved order. It holds every default panel as
\* often as the saved order does, and once when the saved order lacks it: so
\* exactly once each when the saved order repeats no panel.
C19_MergedOrder ==
    panelOrder # <<>> =>
        /\ \A k \in DefaultPanels :
              Count(panelOrder, k) =
                 IF Count(savedOrder, k) = 0 THEN 1 ELSE Count(savedOrder, k)
        /\ (\A k \in DefaultPanels : Count(savedOrder, k) <= 1) =>
              \A k \in DefaultPanels : Count(panelOrder, k) = 1
        /\ \A j \in 1..Len(panelOrder) : panelOrder[j] \in DefaultPanels
        /\ panelOrder[Len(panelOrder)] = "monitors"
        /\ MissingAfterPolitics(panelOrder, savedOrder)
        /\ \A a, b \in DefaultPanels \ {"monitors"} :
              (/\ Count(savedOrder, a) = 1 /\ Count(savedOrder, b) = 1
               /\ indexOf(savedOrder, a) < indexOf(savedOrder, b))
                 => indexOf(panelOrder, a) < indexOf(panelOrder, b)
        /\ savedOrder = <<>> => panelOrder = defaultOrder

\* C19 witness: a saved order with a key that is no panel, monitors in the middle
\* and politics last was merged: tech, politics, the thirteen missing panels in
\* default order, monitors.
C19_Witness ==
    /\ savedOrder = <<"tech", "legacy", "monitors", "politics">>
    /\ panelOrder =
          <<"tech", "politics", "middleeast", "ai", "finance", "layoffs",
            "congress", "heatmap", "markets", "commodities", "crypto",
            "polymarket", "gov", "thinktanks", "intel", "monitors">>

\* C20: while in playback, the resumption of a loadNews or loadPredictions that
\* a loadAllData started (so before this playback was entered) leaves
\* latestClusters, latestPredictions and every hotspot's level as they are.
C20_InFlightLoadsKeepRestore ==
    [][isPlaybackMode =>
          LET kept == /\ latestClusters' = latestClusters
                      /\ latestPredictions' = latestPredictions
                      /\ \A k \in SpotIdx : hotspots'[k].level = hotspots[k].level
          IN  /\ \A i \in 1..Len(newsLoads) :
                    (/\ newsLoads[i].cyc >= 1
                     /\ \/ NewsBaselineDone(i)
                        \/ \E out \in FeedOutcomes(CategoryAt(newsLoads[i].step)) :
                              NewsFeedArrives(i, out))
                       => kept
              /\ \A i \in 1..Len(predictionLoads) :
                    (/\ predictionLoads[i].cyc >= 1
                     /\ \E out \in PredictionOutcomes : PredictionsArrive(i, out))
                       => kept]_vars

\* The lists one loadNews cycle can have fetched from its first k categories:
\* for each, in order, its items once or (its fetch having failed) none.
RECURSIVE CycleLists(_)
CycleLists(k) ==
    IF k = 0 THEN {<<>>}
    ELSE {p \o q : p \in CycleLists(k - 1), q \in {<<>>, FeedItems(categories[k])}}

\* C21: whatever interleaves at its awaits, when a loadNews cycle reaches hotspot
\* scoring and clustering, allNews holds the items of that cycle's own successful
\* fetches, each once, in category order: for every feed category its items once
\* or none, then the intel items; and that list is what is scored and clustered.
C21_ScoringSeesOwnItems ==
    [][\A i \in 1..Len(newsLoads) :
          (newsLoads[i].step = IntelStep /\ NewsBaselineDone(i)) =>
             /\ allNews' \in {p \o FeedItems("intel") : p \in CycleLists(NumFeeds)}
             /\ mapNews' = allNews'
             /\ latestClusters' = clusterNews(allNews')]_vars

\* C22: in every reachable state, after any sequence of scoring passes and
\* snapshot restores, a hotspot whose hasBreaking is true has level high: the
\* BREAKING badge is never drawn on a marker that is low or elevated.
C22_BreakingIsHigh ==
    \A i \in SpotIdx : hotspots[i].hasBreaking => hotspots[i].level = "high"

\* C23: from the initial map state (zoom 1) the zoom stays within [1, 4] under
\* any sequence of zoomIn, zoomOut, reset and setView: zoomIn adds 0.5, capped at
\* 4; zoomOut subtracts 0.5, floored at 1; reset sets zoom 1 and pan (0, 0);
\* setView sets zoom 2.5 for mena and 1 for the other views; zoomIn and zoomOut
\* leave pan and view unchanged.
C23_ZoomWithinBounds ==
    [][LET half == ZoomScale \div 2
           within(z) == 1 * ZoomScale <= z /\ z <= 4 * ZoomScale
       IN  /\ within(state.zoom) /\ within(state'.zoom)
           /\ ZoomIn =>
                 /\ state'.zoom = IF state.zoom + half > 4 * ZoomScale
                                  THEN 4 * ZoomScale ELSE state.zoom + half
                 /\ state'.pan = state.pan /\ state'.view = state.view
           /\ ZoomOut =>
                 /\ state'.zoom = IF state.zoom - half < 1 * ZoomScale
                                  THEN 1 * ZoomScale ELSE state.zoom - half
                 /\ state'.pan = state.pan /\ state'.view = state.view
           /\ Reset =>
                 /\ state'.zoom = 1 * ZoomScale
                 /\ state'.pan = [x |-> 0, y |-> 0]
           /\ \A view \in MapViews :
                 SetView(view) =>
                    state'.zoom = IF view = "mena" THEN 2 * ZoomScale + half
                                  ELSE 1 * ZoomScale]_vars

\* C23 witness: setView('mena') set zoom 2.5, three zoomIn steps took it to the
\* cap of 4, with mena's pan and view untouched.
C23_Witness ==
    /\ state.view = "mena"
    /\ state.zoom = 4 * ZoomScale
    /\ state.pan = [x |-> -180, y |-> 60]

\* What C24 says of one setHotspotLevels(levels) step, where named(levels, n)
\* tells whether the step takes levels' value for the hotspot named n: the levels
\* read after it are levels' value for those hotspots and the level read before
\* it for the others, no status or hasBreaking changes, and writing back the
\* levels just read changes no level read.
RoundTrips(levels, named(_, _)) ==
    LET before == getHotspotLevels(hotspots)
        after == getHotspotLevels(hotspots')
    IN  /\ \A i \in SpotIdx :
              LET n == hotspots[i].name
              IN  /\ after[n] = IF named(levels, n) THEN levels[n] ELSE before[n]
                  /\ hotspots'[i].status = hotspots[i].status
                  /\ hotspots'[i].hasBreaking = hotspots[i].hasBreaking
        /\ levels = before => after = before

NamedIn(levels, n) == n \in DOMAIN levels

NamedWithValue(levels, n) == n \in DOMAIN levels /\ levels[n] # ""

\* C24 as stated: for any levels map L, getHotspotLevels() after
\* setHotspotLevels(L) returns L's value for every hotspot named in L and the
\* previous level for the others; setHotspotLevels(getHotspotLevels()) leaves
\* every effective level unchanged; no status or hasBreaking changes.
C24_RoundTripAnyMap ==
    [][\A levels \in LevelMaps \cup {getHotspotLevels(hotspots)} :
          SetLevels(levels) => RoundTrips(levels, NamedIn)]_vars

\* C24 amended: the same, with L's value returned for every hotspot that L names
\* with a non-empty value, and the previous level for every other hotspot.
C24_RoundTrip ==
    [][\A levels \in LevelMaps \cup {getHotspotLevels(hotspots)} :
          SetLevels(levels) => RoundTrips(levels, NamedWithValue)]_vars

\* C24 witness: a pass left the first hotspot breaking and high and the second
\* idle; setHotspotLevels then made the first elevated and left the second, with
\* every status and hasBreaking as the pass set them.
C24_Witness ==
    /\ Scored /\ ~isPlaybackMode /\ events = 2
    /\ hotspots[1].level = "elevated" /\ hotspots[1].hasBreaking
    /\ hotspots[1].status = "BREAKING NEWS"
    /\ hotspots[2].level = "low" /\ hotspots[2].status = "Monitoring"

=============================================================================
